---- MODULE Spec2Model ----
(***************************************************************************)
(* Model of the Longhorn setting controller                                *)
(* (controller/setting_controller.go): the rate-limited work queue it      *)
(* drives, the worker loop (processNextWorkItem / handleErr), the          *)
(* debounced sync handler (syncSetting) and the version selection of       *)
(* CheckLatestLonghornVersion.                                             *)
(*                                                                         *)
(* Time is counted in units of 12 hours, so upgradeCheckInterval (24h) is  *)
(* 2 units.  time.Time{} (the zero timestamp, year 1) is 0, and the wall   *)
(* clock is always at least one interval past it.                          *)
(***************************************************************************)
EXTENDS Integers, Sequences, FiniteSets, TLC

VARIABLES
    \* ---- workqueue.RateLimitingInterface (sc.queue) ----
    queue,        \* pending keys, in delivery order
    dirty,        \* keys added while they were being processed
    processing,   \* keys checked out by Get and not yet Done
    waiting,      \* keys with a delayed Add scheduled (AddAfter timers)
    failures,     \* per-key failure counter of the rate limiter
    shuttingDown, \* ShutDown() has been requested
    \* ---- workers (goroutines running sc.worker) ----
    pc,           \* position of each worker in processNextWorkItem
    wkey,         \* key a worker holds
    werr,         \* err returned by syncSetting to the worker
    observed,     \* upgradeCheckerEnabled as that invocation read it
    netCalls,     \* http.Post calls made by the worker's current invocation
    updates,      \* values passed to ds.UpdateSetting by that invocation
    fetched,      \* version returned by CheckLatestLonghornVersion in it
    recent,       \* its remote check came less than an interval after the previous one
    armed,        \* disabledSynced held when the invocation started
    oldTimestamp, \* sc.lastUpgradeCheckedTimestamp when the invocation started
    reported,     \* errors its handleErr handed to utilruntime.HandleError
    \* ---- settings store (sc.ds) and controller state ----
    upgradeChecker,              \* setting upgrade-checker, as a bool
    latestLonghornVersion,       \* setting latest-longhorn-version (Value)
    lastUpgradeCheckedTimestamp, \* sc.lastUpgradeCheckedTimestamp
    now,                         \* wall clock (time.Now())
    \* ---- bookkeeping used to state properties ----
    adds,         \* Add(k) calls since k was last delivered by Get
    requeued,     \* the last Done(k) found k dirty, and k was not delivered since
    syncFails,    \* failed syncSetting invocations of k since its last Forget
    notifs,       \* change notifications for k since its last Forget
    lastNetAt,    \* time of the most recent remote check, ZeroTime if none
    reenabled,    \* the feature went disabled -> enabled, not yet observed
    disabledSynced, \* a sync saw the feature disabled, succeeded, none checked since
    lastCheck,    \* how the most recent remote check ended: "failed", "unsaved", "saved"
    \* ---- CheckLatestLonghornVersion in isolation ----
    httpResult,   \* outcome of the HTTP round trip
    checkResult   \* <<version, err>> returned for it

vars == <<queue, dirty, processing, waiting, failures, shuttingDown,
          pc, wkey, werr, observed, netCalls, updates, fetched, recent, armed,
          oldTimestamp, reported,
          upgradeChecker, latestLonghornVersion, lastUpgradeCheckedTimestamp, now,
          adds, requeued, syncFails, notifs, lastNetAt, reenabled, disabledSynced, lastCheck,
          httpResult, checkResult>>

queueVars == <<queue, dirty, processing, waiting, failures, shuttingDown>>
workerVars == <<pc, wkey, werr, observed, netCalls, updates, fetched, recent, armed,
               oldTimestamp, reported>>
storeVars == <<upgradeChecker, latestLonghornVersion>>
ctlVars == <<lastUpgradeCheckedTimestamp, now>>
histVars == <<adds, requeued, syncFails, notifs, lastNetAt, reenabled, disabledSynced,
             lastCheck>>
checkVars == <<httpResult, checkResult>>

----------------------------------------------------------------------------
(* Bounds and constants *)

NumWorkers == 2
MaxNow == 4
MaxAdds == 2
MaxNotifs == 2
MaxVersions == 2
MaxTags == 1

maxRetries == 3
upgradeCheckInterval == 2
ZeroTime == 0

VersionTagLatest == "latest"
\* The name of another setting where the upgrade checker's is meant.
SettingNameMistaken == "latest-longhorn-version"
SettingNameUpgradeChecker == "upgrade-checker"
SettingNameLatestLonghornVersion == "latest-longhorn-version"
Namespace == "longhorn-system"

Workers == 1..NumWorkers

\* controller.KeyFunc: the key of a setting object is namespace/name.
KeyFunc(name) == <<Namespace, name>>

\* cache.SplitMetaNamespaceKey: the name part of a namespace/name key.
SplitMetaNamespaceKey(key) == key[2]

Keys == {KeyFunc(SettingNameUpgradeChecker), KeyFunc(SettingNameLatestLonghornVersion)}

CheckerKey == KeyFunc(SettingNameUpgradeChecker)

NoKey == <<>>

Names == {"", "1.0.0", "1.1.0"}
TagUniverse == {VersionTagLatest, "stable"}

----------------------------------------------------------------------------
(* The work queue: workqueue.Type + delaying queue + rate limiter.          *)
(* A queue value is a record of the queue variables.                        *)

Q == [queue |-> queue, dirty |-> dirty, processing |-> processing,
      waiting |-> waiting, failures |-> failures]

Range(s) == {s[i] : i \in 1..Len(s)}

Count(k, s) == Cardinality({i \in 1..Len(s) : s[i] = k})

\* An Add that appends a key that is already pending.
AddNoDedup(q, k) ==
    IF k \in q.processing THEN [q EXCEPT !.dirty = @ \cup {k}]
    ELSE [q EXCEPT !.queue = Append(@, k)]

\* Add(key): processing -> mark dirty; already pending -> nothing; else append.
Add(q, k) ==
    IF k \in q.processing THEN [q EXCEPT !.dirty = @ \cup {k}]
    ELSE IF k \in Range(q.queue) THEN q
    ELSE [q EXCEPT !.queue = Append(@, k)]

\* Get(): the head of pending moves to processing.
Get(q) == [q EXCEPT !.queue = Tail(@), !.processing = @ \cup {Head(q.queue)}]

\* A Done that puts a dirty key at the head of pending.
DoneAtFront(q, k) ==
    IF k \in q.dirty
    THEN [q EXCEPT !.processing = @ \ {k}, !.dirty = @ \ {k},
                   !.queue = <<k>> \o @]
    ELSE [q EXCEPT !.processing = @ \ {k}]

\* Done(key): a dirty key goes back to the end of pending; always leaves processing.
Done(q, k) ==
    IF k \in q.dirty
    THEN [q EXCEPT !.processing = @ \ {k}, !.dirty = @ \ {k},
                   !.queue = Append(@, k)]
    ELSE [q EXCEPT !.processing = @ \ {k}]

\* NumRequeues(key): the failure counter of key.
NumRequeues(q, k) == q.failures[k]

\* Forget(key): resets the failure counter of key.
Forget(q, k) == [q EXCEPT !.failures[k] = 0]

\* AddRateLimited(key): counts one more requeue of key and schedules Add(key)
\* after the backoff delay (a timer per key; a key already waiting keeps its timer).
AddRateLimited(q, k) ==
    [q EXCEPT !.failures[k] = @ + 1, !.waiting = @ \cup {k}]

SetQueue(q) ==
    /\ queue' = q.queue
    /\ dirty' = q.dirty
    /\ processing' = q.processing
    /\ waiting' = q.waiting
    /\ failures' = q.failures

----------------------------------------------------------------------------
(* CheckLatestLonghornVersion *)

RECURSIVE SeqsUpTo(_, _)
SeqsUpTo(S, n) ==
    IF n = 0 THEN {<<>>}
    ELSE LET shorter == SeqsUpTo(S, n - 1)
         IN shorter \cup {Append(s, x) : s \in {t \in shorter : Len(t) = n - 1}, x \in S}

\* type Version; ReleaseDate plays no part in the selection and is left out.
Version == [Name : Names, Tags : SeqsUpTo(TagUniverse, MaxTags)]

\* type CheckUpgradeResponse, as decoded from the response body.
CheckUpgradeResponse == SeqsUpTo(Version, MaxVersions)

\* What the HTTP round trip can give: a transport error from http.Post, a body
\* json cannot decode, or a decoded response.
HttpResults ==
    {[kind |-> "post", versions |-> <<>>], [kind |-> "decode", versions |-> <<>>]}
    \cup {[kind |-> "ok", versions |-> vs] : vs \in CheckUpgradeResponse}

\* The inner loop: for _, tag := range v.Tags { if tag == VersionTagLatest ... }
RECURSIVE TagFound(_)
TagFound(tags) ==
    IF tags = <<>> THEN FALSE
    ELSE IF Head(tags) = VersionTagLatest THEN TRUE
    ELSE TagFound(Tail(tags))

\* A scan that keeps going after a match, so that the last match wins.
RECURSIVE ScanVersionsNoBreak(_)
ScanVersionsNoBreak(versions) ==
    IF versions = <<>> THEN ""
    ELSE LET rest == ScanVersionsNoBreak(Tail(versions))
         IN IF rest # "" THEN rest
            ELSE IF TagFound(Head(versions).Tags) THEN Head(versions).Name
            ELSE ""

\* The outer loop: latestVersion is the Name of the first descriptor found
\* tagged, "" when there is none.
RECURSIVE ScanVersions(_)
ScanVersions(versions) ==
    IF versions = <<>> THEN ""
    ELSE IF TagFound(Head(versions).Tags) THEN Head(versions).Name
    ELSE ScanVersions(Tail(versions))

\* Returns <<version, err>>.
CheckLatestLonghornVersion(h) ==
    IF h.kind = "post" THEN <<"", "post">>
    ELSE IF h.kind = "decode" THEN <<"", "decode">>
    ELSE LET latestVersion == ScanVersions(h.versions)
         IN IF latestVersion = "" THEN <<"", "nolatest">>
            ELSE <<latestVersion, "nil">>

\* The results syncSetting can get from CheckLatestLonghornVersion.
CheckOutcomes == {CheckLatestLonghornVersion(h) : h \in HttpResults}

----------------------------------------------------------------------------
(* syncSetting *)

\* Inputs of one invocation: which store calls fail, and what the check returns.
SyncInputs ==
    [getBoolErr : BOOLEAN, getErr : BOOLEAN, updErr : BOOLEAN, check : CheckOutcomes]

\* No debounce at all: every enabled invocation goes to the remote service.
DebounceNever(t, last) == FALSE

\* A debounce window one clock unit short of the interval.
DebounceActiveShort(t, last) == t < last + upgradeCheckInterval - 1

\* A debounce test that also holds back the check at the end of the interval.
DebounceActiveInclusive(t, last) == t <= last + upgradeCheckInterval

\* now.Before(sc.lastUpgradeCheckedTimestamp.Add(upgradeCheckInterval))
DebounceActive(t, last) == t < last + upgradeCheckInterval

\* A disable that leaves the timestamp as it was.
ResetTimestampStale == lastUpgradeCheckedTimestamp

\* sc.lastUpgradeCheckedTimestamp = time.Time{}
ResetTimestamp == ZeroTime

\* A write that is not gated on a change of the value.
VersionChangedAlways(new, old) == TRUE

\* latestLonghornVersion.Value != oldVersion
VersionChanged(new, old) == new # old

\* The timestamp taken before the check is known to have succeeded.
FailedCheckTimestampNow(last) == now

\* A failed check that resets the timestamp.
FailedCheckTimestampReset(last) == ZeroTime

\* if err != nil { return err }: a failed check leaves the timestamp alone.
FailedCheckTimestamp(last) == last

\* The result of syncSetting(key): the error returned, the stored latest version and
\* the timestamp it leaves, the http.Post calls made, the values passed to
\* UpdateSetting, the version fetched, and what the local upgradeCheckerEnabled
\* held ("unread" when the invocation never got to read the flag).
syncSetting(key, in) ==
    LET base == [err |-> "nil", latest |-> latestLonghornVersion,
                 last |-> lastUpgradeCheckedTimestamp, net |-> 0,
                 upd |-> <<>>, fetched |-> "", enabled |-> "unread"]
        read == [base EXCEPT !.enabled = IF upgradeChecker THEN "true" ELSE "false"]
        oldVersion == latestLonghornVersion
    IN
    IF SplitMetaNamespaceKey(key) # SettingNameUpgradeChecker THEN base
    ELSE IF in.getBoolErr THEN [base EXCEPT !.err = "getbool"]
    ELSE IF in.getErr THEN [read EXCEPT !.err = "getsetting"]
    ELSE IF upgradeChecker = FALSE THEN
        IF latestLonghornVersion # ""
        THEN IF in.updErr
             THEN [read EXCEPT !.err = "update", !.upd = <<"">>]
             ELSE [read EXCEPT !.latest = "", !.upd = <<"">>, !.last = ResetTimestamp]
        ELSE [read EXCEPT !.last = ResetTimestamp]
    ELSE IF DebounceActive(now, lastUpgradeCheckedTimestamp) THEN read
    ELSE IF in.check[2] # "nil"
    THEN [read EXCEPT !.err = in.check[2], !.net = 1,
                      !.last = FailedCheckTimestamp(lastUpgradeCheckedTimestamp)]
    ELSE LET checked == [read EXCEPT !.net = 1, !.fetched = in.check[1], !.last = now]
         IN IF VersionChanged(in.check[1], oldVersion)
            THEN IF in.updErr
                 THEN [checked EXCEPT !.err = "update", !.upd = <<in.check[1]>>]
                 ELSE [checked EXCEPT !.latest = in.check[1], !.upd = <<in.check[1]>>]
            ELSE checked

----------------------------------------------------------------------------
(* Initial state: NewSettingController has returned, Run has started the     *)
(* workers, on a store that holds no cached version yet.                     *)

Init ==
    /\ queue = <<>>
    /\ dirty = {}
    /\ processing = {}
    /\ waiting = {}
    /\ failures = [k \in Keys |-> 0]
    /\ shuttingDown = FALSE
    /\ pc = [w \in Workers |-> "get"]
    /\ wkey = [w \in Workers |-> NoKey]
    /\ werr = [w \in Workers |-> "nil"]
    /\ observed = [w \in Workers |-> "unread"]
    /\ netCalls = [w \in Workers |-> 0]
    /\ updates = [w \in Workers |-> <<>>]
    /\ fetched = [w \in Workers |-> ""]
    /\ recent = [w \in Workers |-> FALSE]
    /\ armed = [w \in Workers |-> FALSE]
    /\ oldTimestamp = [w \in Workers |-> ZeroTime]
    /\ reported = [w \in Workers |-> 0]
    /\ upgradeChecker \in BOOLEAN
    /\ latestLonghornVersion = ""
    /\ lastUpgradeCheckedTimestamp = ZeroTime
    /\ now = upgradeCheckInterval
    /\ adds = [k \in Keys |-> 0]
    /\ requeued = [k \in Keys |-> FALSE]
    /\ syncFails = [k \in Keys |-> 0]
    /\ notifs = [k \in Keys |-> 0]
    /\ lastNetAt = ZeroTime
    /\ reenabled = FALSE
    /\ disabledSynced = FALSE
    /\ lastCheck = "none"
    /\ httpResult = [kind |-> "post", versions |-> <<>>]
    /\ checkResult = <<"", "none">>

----------------------------------------------------------------------------
(* Producers and the environment *)

\* A change notification (add, update or delete of a setting, or the hourly
\* resync) for the setting called name.  KeyFunc cannot fail on a Setting object.
enqueueSetting(name) ==
    LET key == KeyFunc(name) IN
    /\ notifs[key] < MaxNotifs
    /\ SetQueue(AddRateLimited(Q, key))
    /\ notifs' = [notifs EXCEPT ![key] = @ + 1]
    /\ UNCHANGED <<shuttingDown, workerVars, storeVars, ctlVars, checkVars,
                   adds, requeued, syncFails, lastNetAt, reenabled, disabledSynced, lastCheck>>

\* The backoff timer of a key scheduled by AddRateLimited fires: Add(key).
DelayedAdd(k) ==
    /\ k \in waiting
    /\ adds[k] < MaxAdds
    /\ SetQueue(Add([Q EXCEPT !.waiting = @ \ {k}], k))
    /\ adds' = [adds EXCEPT ![k] = @ + 1]
    /\ UNCHANGED <<shuttingDown, workerVars, storeVars, ctlVars, checkVars,
                   requeued, syncFails, notifs, lastNetAt, reenabled, disabledSynced, lastCheck>>

\* Somebody changes the upgrade-checker setting in the store.
SetUpgradeChecker(b) ==
    /\ b # upgradeChecker
    /\ upgradeChecker' = b
    /\ reenabled' = b
    /\ UNCHANGED <<queueVars, workerVars, latestLonghornVersion, ctlVars, checkVars,
                   adds, requeued, syncFails, notifs, lastNetAt, disabledSynced, lastCheck>>

\* The wall clock advances.
Tick ==
    /\ now < MaxNow
    /\ now' = now + 1
    /\ UNCHANGED <<queueVars, workerVars, storeVars, lastUpgradeCheckedTimestamp,
                   histVars, checkVars>>

\* Run: stopCh is closed and the deferred sc.queue.ShutDown() runs.
ShutDown ==
    /\ ~shuttingDown
    /\ shuttingDown' = TRUE
    /\ UNCHANGED <<queue, dirty, processing, waiting, failures, workerVars,
                   storeVars, ctlVars, histVars, checkVars>>

----------------------------------------------------------------------------
(* Workers: processNextWorkItem in steps *)

\* Get with Done called at once instead of deferred.
GetItemNoDefer(w) ==
    /\ pc[w] = "get"
    /\ queue # <<>>
    /\ LET k == Head(queue) IN
        /\ SetQueue(Done(Get(Q), k))
        /\ pc' = [pc EXCEPT ![w] = "sync"]
        /\ wkey' = [wkey EXCEPT ![w] = k]
        /\ adds' = [adds EXCEPT ![k] = 0]
        /\ requeued' = [requeued EXCEPT ![k] = FALSE]
    /\ UNCHANGED <<shuttingDown, werr, observed, netCalls, updates, fetched, recent, armed,
                   oldTimestamp, reported, storeVars, ctlVars, checkVars,
                   syncFails, notifs, lastNetAt, reenabled, disabledSynced, lastCheck>>

\* key, quit := sc.queue.Get() with a key available; defer sc.queue.Done(key).
GetItem(w) ==
    /\ pc[w] = "get"
    /\ queue # <<>>
    /\ LET k == Head(queue) IN
        /\ SetQueue(Get(Q))
        /\ pc' = [pc EXCEPT ![w] = "sync"]
        /\ wkey' = [wkey EXCEPT ![w] = k]
        /\ adds' = [adds EXCEPT ![k] = 0]
        /\ requeued' = [requeued EXCEPT ![k] = FALSE]
    /\ UNCHANGED <<shuttingDown, werr, observed, netCalls, updates, fetched, recent, armed,
                   oldTimestamp, reported, storeVars, ctlVars, checkVars,
                   syncFails, notifs, lastNetAt, reenabled, disabledSynced, lastCheck>>

\* quit = true taken for one more round of the loop (return true).
GetQuitContinue(w) ==
    /\ pc[w] = "get"
    /\ queue = <<>>
    /\ shuttingDown
    /\ UNCHANGED vars

\* key, quit := sc.queue.Get() with quit = true: the worker loop ends.
GetQuit(w) ==
    /\ pc[w] = "get"
    /\ queue = <<>>
    /\ shuttingDown
    /\ pc' = [pc EXCEPT ![w] = "stopped"]
    /\ UNCHANGED <<queueVars, wkey, werr, observed, netCalls, updates, fetched, recent, armed,
                   oldTimestamp, reported, storeVars, ctlVars, histVars, checkVars>>

\* err := sc.syncSetting(key.(string)), over every outcome the store and the
\* remote service can give it.
SyncItem(w) ==
    /\ pc[w] = "sync"
    /\ \E r \in {syncSetting(wkey[w], in) : in \in SyncInputs} :
        LET k == wkey[w] IN
        /\ werr' = [werr EXCEPT ![w] = r.err]
        /\ observed' = [observed EXCEPT ![w] = r.enabled]
        /\ latestLonghornVersion' = r.latest
        /\ lastUpgradeCheckedTimestamp' = r.last
        /\ netCalls' = [netCalls EXCEPT ![w] = r.net]
        /\ updates' = [updates EXCEPT ![w] = r.upd]
        /\ fetched' = [fetched EXCEPT ![w] = r.fetched]
        /\ recent' = [recent EXCEPT ![w] = /\ r.net = 1
                                          /\ lastNetAt # ZeroTime
                                          /\ now < lastNetAt + upgradeCheckInterval]
        /\ armed' = [armed EXCEPT ![w] = disabledSynced]
        /\ oldTimestamp' = [oldTimestamp EXCEPT ![w] = lastUpgradeCheckedTimestamp]
        /\ lastNetAt' = IF r.net = 1 THEN now ELSE lastNetAt
        /\ syncFails' = [syncFails EXCEPT ![k] = IF r.err # "nil" THEN @ + 1 ELSE @]
        /\ reenabled' = IF r.enabled = "true" THEN FALSE ELSE reenabled
        /\ disabledSynced' = IF r.enabled = "false" /\ r.err = "nil" THEN TRUE
                             ELSE IF r.net = 1 /\ r.fetched # "" THEN FALSE
                             ELSE disabledSynced
        /\ lastCheck' = IF r.net = 0 THEN lastCheck
                        ELSE IF r.fetched = "" THEN "failed"
                        ELSE IF r.err # "nil" THEN "unsaved"
                        ELSE "saved"
    /\ pc' = [pc EXCEPT ![w] = "handleErr"]
    /\ UNCHANGED <<queueVars, wkey, reported, upgradeChecker, now, checkVars,
                   adds, requeued, notifs>>

\* handleErr with the retry test off by one: a key at the limit is retried.
handleErrRetryInclusive(w) ==
    /\ pc[w] = "handleErr"
    /\ LET k == wkey[w] IN
        IF werr[w] = "nil"
        THEN /\ SetQueue(Forget(Q, k))
             /\ syncFails' = [syncFails EXCEPT ![k] = 0]
             /\ notifs' = [notifs EXCEPT ![k] = 0]
             /\ UNCHANGED reported
        ELSE IF NumRequeues(Q, k) <= maxRetries
        THEN /\ SetQueue(AddRateLimited(Q, k))
             /\ UNCHANGED <<syncFails, notifs, reported>>
        ELSE /\ reported' = [reported EXCEPT ![w] = @ + 1]
             /\ SetQueue(Forget(Q, k))
             /\ syncFails' = [syncFails EXCEPT ![k] = 0]
             /\ notifs' = [notifs EXCEPT ![k] = 0]
    /\ pc' = [pc EXCEPT ![w] = "done"]
    /\ netCalls' = [netCalls EXCEPT ![w] = 0]
    /\ updates' = [updates EXCEPT ![w] = <<>>]
    /\ fetched' = [fetched EXCEPT ![w] = ""]
    /\ recent' = [recent EXCEPT ![w] = FALSE]
    /\ werr' = [werr EXCEPT ![w] = "nil"]
    /\ observed' = [observed EXCEPT ![w] = "unread"]
    /\ armed' = [armed EXCEPT ![w] = FALSE]
    /\ oldTimestamp' = [oldTimestamp EXCEPT ![w] = ZeroTime]
    /\ UNCHANGED <<shuttingDown, wkey, storeVars, ctlVars, checkVars,
                   adds, requeued, lastNetAt, reenabled, disabledSynced, lastCheck>>

\* handleErr whose error ends the worker loop (processNextWorkItem returns
\* false when err is not nil).
handleErrFatal(w) ==
    /\ pc[w] = "handleErr"
    /\ LET k == wkey[w] IN
        IF werr[w] = "nil"
        THEN /\ SetQueue(Forget(Q, k))
             /\ syncFails' = [syncFails EXCEPT ![k] = 0]
             /\ notifs' = [notifs EXCEPT ![k] = 0]
             /\ UNCHANGED reported
        ELSE IF NumRequeues(Q, k) < maxRetries
        THEN /\ SetQueue(AddRateLimited(Q, k))
             /\ UNCHANGED <<syncFails, notifs, reported>>
        ELSE /\ reported' = [reported EXCEPT ![w] = @ + 1]
             /\ SetQueue(Forget(Q, k))
             /\ syncFails' = [syncFails EXCEPT ![k] = 0]
             /\ notifs' = [notifs EXCEPT ![k] = 0]
    /\ pc' = [pc EXCEPT ![w] = IF werr[w] = "nil" THEN "done" ELSE "stopped"]
    /\ netCalls' = [netCalls EXCEPT ![w] = 0]
    /\ updates' = [updates EXCEPT ![w] = <<>>]
    /\ fetched' = [fetched EXCEPT ![w] = ""]
    /\ recent' = [recent EXCEPT ![w] = FALSE]
    /\ werr' = [werr EXCEPT ![w] = "nil"]
    /\ observed' = [observed EXCEPT ![w] = "unread"]
    /\ armed' = [armed EXCEPT ![w] = FALSE]
    /\ oldTimestamp' = [oldTimestamp EXCEPT ![w] = ZeroTime]
    /\ UNCHANGED <<shuttingDown, wkey, storeVars, ctlVars, checkVars,
                   adds, requeued, lastNetAt, reenabled, disabledSynced, lastCheck>>

\* sc.handleErr(err, key)
handleErr(w) ==
    /\ pc[w] = "handleErr"
    /\ LET k == wkey[w] IN
        IF werr[w] = "nil"
        THEN /\ SetQueue(Forget(Q, k))
             /\ syncFails' = [syncFails EXCEPT ![k] = 0]
             /\ notifs' = [notifs EXCEPT ![k] = 0]
             /\ UNCHANGED reported
        ELSE IF NumRequeues(Q, k) < maxRetries
        THEN /\ SetQueue(AddRateLimited(Q, k))
             /\ UNCHANGED <<syncFails, notifs, reported>>
        ELSE /\ reported' = [reported EXCEPT ![w] = @ + 1]
             /\ SetQueue(Forget(Q, k))
             /\ syncFails' = [syncFails EXCEPT ![k] = 0]
             /\ notifs' = [notifs EXCEPT ![k] = 0]
    /\ pc' = [pc EXCEPT ![w] = "done"]
    /\ netCalls' = [netCalls EXCEPT ![w] = 0]
    /\ updates' = [updates EXCEPT ![w] = <<>>]
    /\ fetched' = [fetched EXCEPT ![w] = ""]
    /\ recent' = [recent EXCEPT ![w] = FALSE]
    /\ werr' = [werr EXCEPT ![w] = "nil"]
    /\ observed' = [observed EXCEPT ![w] = "unread"]
    /\ armed' = [armed EXCEPT ![w] = FALSE]
    /\ oldTimestamp' = [oldTimestamp EXCEPT ![w] = ZeroTime]
    /\ UNCHANGED <<shuttingDown, wkey, storeVars, ctlVars, checkVars,
                   adds, requeued, lastNetAt, reenabled, disabledSynced, lastCheck>>

\* A return from processNextWorkItem that runs no deferred Done.
DoneItemSkipped(w) ==
    /\ pc[w] = "done"
    /\ pc' = [pc EXCEPT ![w] = "get"]
    /\ wkey' = [wkey EXCEPT ![w] = NoKey]
    /\ reported' = [reported EXCEPT ![w] = 0]
    /\ requeued' = [requeued EXCEPT ![wkey[w]] = wkey[w] \in dirty]
    /\ UNCHANGED <<queueVars, werr, observed, netCalls, updates, fetched, recent, armed,
                   oldTimestamp, storeVars, ctlVars, checkVars,
                   adds, syncFails, notifs, lastNetAt, reenabled, disabledSynced, lastCheck>>

\* return true: the deferred sc.queue.Done(key) runs and the loop goes round.
DoneItem(w) ==
    /\ pc[w] = "done"
    /\ SetQueue(Done(Q, wkey[w]))
    /\ pc' = [pc EXCEPT ![w] = "get"]
    /\ wkey' = [wkey EXCEPT ![w] = NoKey]
    /\ reported' = [reported EXCEPT ![w] = 0]
    /\ requeued' = [requeued EXCEPT ![wkey[w]] = wkey[w] \in dirty]
    /\ UNCHANGED <<shuttingDown, werr, observed, netCalls, updates, fetched, recent, armed,
                   oldTimestamp, storeVars, ctlVars, checkVars,
                   adds, syncFails, notifs, lastNetAt, reenabled, disabledSynced, lastCheck>>

\* The engine: notifications for both settings, the timers and the workers,
\* while the clock reading and the feature flag stay put.
Next ==
    \/ \E name \in {SettingNameUpgradeChecker, SettingNameLatestLonghornVersion} :
          enqueueSetting(name)
    \/ \E k \in Keys : DelayedAdd(k)
    \/ \E w \in Workers : GetItem(w)
    \/ \E w \in Workers : SyncItem(w)
    \/ \E w \in Workers : handleErr(w)
    \/ \E w \in Workers : DoneItem(w)

Spec == Init /\ [][Next]_vars

\* The sync handler over time: the one worker Run starts processes the
\* upgrade-checker key while the clock advances and the flag is switched.
TheWorker == 1

NextSync ==
    \/ enqueueSetting(SettingNameUpgradeChecker)
    \/ DelayedAdd(CheckerKey)
    \/ \E b \in BOOLEAN : SetUpgradeChecker(b)
    \/ Tick
    \/ GetItem(TheWorker)
    \/ SyncItem(TheWorker)
    \/ handleErr(TheWorker)
    \/ DoneItem(TheWorker)

SpecSync == Init /\ [][NextSync]_vars

\* The life of Run: the worker it starts, notifications for both settings until
\* stopCh is closed, the deferred ShutDown, and the worker loop's exit.  The
\* informers that deliver the notifications are started on the same stopCh, so
\* no notification arrives after it is closed; timers already scheduled by
\* AddRateLimited still fire.
WorkerStep(w) ==
    \/ GetItem(w)
    \/ GetQuit(w)
    \/ SyncItem(w)
    \/ handleErr(w)
    \/ DoneItem(w)

NextRun ==
    \/ /\ ~shuttingDown
       /\ \E name \in {SettingNameUpgradeChecker, SettingNameLatestLonghornVersion} :
             enqueueSetting(name)
    \/ \E k \in Keys : DelayedAdd(k)
    \/ ShutDown
    \/ WorkerStep(TheWorker)

\* What the handler does to the store plays no part in the loop's control
\* flow, which sees only err: Run is followed with the feature disabled, where
\* syncSetting succeeds or fails on its store reads.  The worker goroutine is
\* scheduled as long as it has a step to take, and every call it makes (Get
\* with a key pending or after shutdown, syncSetting, handleErr, Done) returns.
InitRun == Init /\ upgradeChecker = FALSE

SpecRun == InitRun /\ [][NextRun]_vars /\ WF_vars(WorkerStep(TheWorker))

\* CheckLatestLonghornVersion on its own: one round trip, one result.
InitCheck ==
    /\ Init
    /\ upgradeChecker = TRUE

NewRequest ==
    /\ checkResult[2] = "none"
    /\ httpResult = [kind |-> "post", versions |-> <<>>]
    /\ httpResult' \in HttpResults
    /\ checkResult' = <<"", "sent">>
    /\ UNCHANGED <<queueVars, workerVars, storeVars, ctlVars, histVars>>

Check ==
    /\ checkResult[2] = "sent"
    /\ checkResult' = CheckLatestLonghornVersion(httpResult)
    /\ UNCHANGED <<queueVars, workerVars, storeVars, ctlVars, histVars, httpResult>>

NextCheck == NewRequest \/ Check

SpecCheck == InitCheck /\ [][NextCheck]_vars

----------------------------------------------------------------------------
(* Properties of the engine (specification Spec) *)

\* A worker holds a key from the return of Get until its deferred Done has run.
InFlight(w) == pc[w] \in {"sync", "handleErr", "done"}

\* C1: no key is ever held by two workers at once: between the Get that
\* returned k and the Done(k) that follows it, no other Get returns k, so at most
\* one syncSetting invocation for k is in flight; and a key in flight is in the
\* processing set and not pending.
NoDoubleProcessing ==
    /\ \A w1, w2 \in Workers :
          (w1 # w2 /\ InFlight(w1) /\ InFlight(w2)) => wkey[w1] # wkey[w2]
    /\ \A w \in Workers :
          InFlight(w) => (wkey[w] \in processing /\ wkey[w] \notin Range(queue))

\* C1 witness: one worker holds a key that was added again while it is held (it
\* is dirty), and the other worker is busy with the other key.
NoDoubleProcessingWitness ==
    \E w1, w2 \in Workers :
        /\ w1 # w2
        /\ pc[w1] = "sync" /\ pc[w2] = "sync"
        /\ wkey[w1] \in dirty
        /\ adds[wkey[w1]] = MaxAdds

\* C2: an Add(k) that arrives while k is being processed marks k dirty and
\* leaves it out of pending; once Done(k) has run on a dirty k, k is pending
\* exactly once (one more delivery, however many Adds arrived), is no longer
\* processing and no longer dirty.
NoLostUpdate ==
    \A k \in Keys :
        /\ (k \in processing /\ adds[k] >= 1) => (k \in dirty /\ k \notin Range(queue))
        /\ k \in dirty => k \in processing
        /\ requeued[k] => (Count(k, queue) = 1 /\ k \notin processing /\ k \notin dirty)

\* C2 witness: Done has put back a key that was added MaxAdds times while it was
\* being processed.
NoLostUpdateWitness ==
    \E k \in Keys :
        /\ requeued[k]
        /\ adds[k] = MaxAdds
        /\ Count(k, queue) = 1

\* C3: a key is pending at most once; after one or more Add(k) on a key that
\* is not being processed it is pending exactly once, so one Get delivers it;
\* and an Add of a pending key leaves the pending sequence as it was.
Dedup ==
    /\ [](\A k \in Keys :
            /\ Count(k, queue) <= 1
            /\ (k \notin processing /\ adds[k] >= 1) => Count(k, queue) = 1)
    /\ [][\A k \in Keys :
            (k \in Range(queue) /\ adds'[k] = adds[k] + 1) => queue' = queue]_vars

\* C3 witness: MaxAdds Adds of a key, none of them while it was being processed,
\* and the key is pending once.
DedupWitness ==
    \E k \in Keys :
        /\ adds[k] = MaxAdds
        /\ ~requeued[k]
        /\ k \notin processing
        /\ queue = <<k>>

\* C4, as claimed: when a key enqueued by one change notification is dropped
\* (its error goes to HandleError), its handler has failed maxRetries + 1 times
\* in a row: maxRetries retries after the first invocation.
RetryDropClaim ==
    \A w \in Workers :
        (/\ pc[w] = "handleErr"
         /\ werr[w] # "nil"
         /\ notifs[wkey[w]] = 1
         /\ NumRequeues(Q, wkey[w]) >= maxRetries)
        => syncFails[wkey[w]] = maxRetries + 1

----------------------------------------------------------------------------
(* Properties of the sync handler (specification SpecSync) *)

\* The step in which worker w runs syncSetting for the upgrade-checker key.
SyncStep(w) ==
    /\ pc[w] = "sync"
    /\ pc'[w] = "handleErr"
    /\ wkey[w] = CheckerKey

\* The invocation read the flag and went on to load the cached version.
Loaded(w) == observed'[w] # "unread" /\ werr'[w] # "getsetting"

\* C5: an invocation that finds the feature enabled and the clock inside the
\* debounce window makes no network call and no store write, leaves the
\* timestamp and the cached version alone and returns nil; one that finds the
\* interval elapsed makes exactly one network call.
Debounce ==
    [][\A w \in Workers :
         (SyncStep(w) /\ Loaded(w) /\ observed'[w] = "true") =>
            IF now < lastUpgradeCheckedTimestamp + upgradeCheckInterval
            THEN /\ netCalls'[w] = 0
                 /\ updates'[w] = <<>>
                 /\ lastUpgradeCheckedTimestamp' = lastUpgradeCheckedTimestamp
                 /\ latestLonghornVersion' = latestLonghornVersion
                 /\ werr'[w] = "nil"
            ELSE netCalls'[w] = 1]_vars

\* C5 witness: an invocation one clock unit short of the end of the window of an
\* earlier check was debounced.
DebounceWitness ==
    \E w \in Workers :
        /\ pc[w] = "handleErr"
        /\ observed[w] = "true"
        /\ werr[w] = "nil"
        /\ netCalls[w] = 0
        /\ oldTimestamp[w] # ZeroTime
        /\ now = oldTimestamp[w] + upgradeCheckInterval - 1

\* C6, as claimed: every invocation that finds the feature disabled returns nil
\* and leaves the timestamp at zero and the cached version empty.
DisableClearsClaim ==
    \A w \in Workers :
        (pc[w] = "handleErr" /\ observed[w] = "false" /\ werr[w] # "getsetting")
        => /\ werr[w] = "nil"
           /\ lastUpgradeCheckedTimestamp = ZeroTime
           /\ latestLonghornVersion = ""

\* C6, amended: an invocation that finds the feature disabled makes no network
\* call and can fail only in the store; when the clearing write it needs (cached
\* version not empty) succeeds, or none is needed, it returns nil with the cached
\* version empty, written once if it was not, and the timestamp at zero; when
\* that write fails it returns the error and leaves both as they were.
DisableClears ==
    [][\A w \in Workers :
         (SyncStep(w) /\ Loaded(w) /\ observed'[w] = "false") =>
            /\ netCalls'[w] = 0
            /\ werr'[w] \in {"nil", "update"}
            /\ updates'[w] = IF latestLonghornVersion # "" THEN <<"">> ELSE <<>>
            /\ werr'[w] = "nil" =>
                  /\ latestLonghornVersion' = ""
                  /\ lastUpgradeCheckedTimestamp' = ZeroTime
            /\ werr'[w] = "update" =>
                  /\ latestLonghornVersion # ""
                  /\ latestLonghornVersion' = latestLonghornVersion
                  /\ lastUpgradeCheckedTimestamp' = lastUpgradeCheckedTimestamp]_vars

\* C6 witness: a disabled invocation cleared a cached version and reset a
\* timestamp that an earlier check had set.
DisableClearsWitness ==
    \E w \in Workers :
        /\ pc[w] = "handleErr"
        /\ observed[w] = "false"
        /\ werr[w] = "nil"
        /\ updates[w] = <<"">>
        /\ oldTimestamp[w] # ZeroTime
        /\ lastUpgradeCheckedTimestamp = ZeroTime
        /\ latestLonghornVersion = ""

\* C7: every value an invocation passes to UpdateSetting differs from the
\* cached value it loaded, the store changes only through such a write, and a
\* check that returns the version already cached writes nothing.
ChangeGatedWrite ==
    [][\A w \in Workers :
         SyncStep(w) =>
            /\ \A i \in 1..Len(updates'[w]) : updates'[w][i] # latestLonghornVersion
            /\ latestLonghornVersion' # latestLonghornVersion =>
                  updates'[w] = <<latestLonghornVersion'>>
            /\ (netCalls'[w] = 1 /\ fetched'[w] = latestLonghornVersion) =>
                  updates'[w] = <<>>]_vars

\* C7 witness: a second successful check, one interval after the first, got
\* the version already cached and wrote nothing.
ChangeGatedWriteWitness ==
    \E w \in Workers :
        /\ pc[w] = "handleErr"
        /\ netCalls[w] = 1
        /\ werr[w] = "nil"
        /\ fetched[w] # ""
        /\ fetched[w] = latestLonghornVersion
        /\ updates[w] = <<>>
        /\ oldTimestamp[w] # ZeroTime
        /\ ~armed[w]

\* C8, as claimed: after the feature went from disabled to enabled, the next
\* invocation that finds it enabled performs a remote check.
ReenableChecksClaim ==
    [][\A w \in Workers :
         (SyncStep(w) /\ Loaded(w) /\ observed'[w] = "true" /\ reenabled)
            => netCalls'[w] = 1]_vars

\* C8, amended: once an invocation that found the feature disabled has returned
\* nil, an invocation that finds it enabled performs a remote check however
\* recent the last one was; and that state implies a zero timestamp.
ReenableChecks ==
    /\ disabledSynced => lastUpgradeCheckedTimestamp = ZeroTime
    /\ \A w \in Workers :
          (/\ pc[w] = "handleErr"
           /\ armed[w]
           /\ observed[w] = "true"
           /\ werr[w] # "getsetting")
          => netCalls[w] = 1

\* C8 witness: after a successful disabled invocation, an enabled one made a
\* remote check less than an interval after the previous remote check.
ReenableChecksWitness ==
    \E w \in Workers :
        /\ pc[w] = "handleErr"
        /\ armed[w]
        /\ observed[w] = "true"
        /\ netCalls[w] = 1
        /\ recent[w]
        /\ fetched[w] # ""

\* C10: the timestamp changes only in a syncSetting step for the
\* upgrade-checker key, and every change is an increase or a reset to zero by an
\* invocation that found the feature disabled.
TimestampMonotonic ==
    [][lastUpgradeCheckedTimestamp' # lastUpgradeCheckedTimestamp =>
         \E w \in Workers :
            /\ SyncStep(w)
            /\ \/ lastUpgradeCheckedTimestamp' > lastUpgradeCheckedTimestamp
               \/ /\ lastUpgradeCheckedTimestamp' = ZeroTime
                  /\ observed'[w] = "false"]_vars

\* C10 witness: a successful check moved a timestamp set by an earlier check
\* forward.
TimestampMonotonicWitness ==
    \E w \in Workers :
        /\ pc[w] = "handleErr"
        /\ netCalls[w] = 1
        /\ oldTimestamp[w] # ZeroTime
        /\ lastUpgradeCheckedTimestamp > oldTimestamp[w]

----------------------------------------------------------------------------
(* Properties of CheckLatestLonghornVersion (specification SpecCheck) *)

\* The positions of the descriptors of a response that carry the tag "latest".
Tagged(versions) ==
    {i \in 1..Len(versions) : VersionTagLatest \in Range(versions[i].Tags)}

\* The first of a non-empty set of positions.
First(positions) == CHOOSE i \in positions : \A j \in positions : i <= j

Returned == checkResult[2] \notin {"none", "sent"}

\* C9, as claimed: on a decoded response the function returns the Name of the
\* first descriptor tagged "latest", and an error exactly when no descriptor
\* carries the tag.
VersionSelectionClaim ==
    (Returned /\ httpResult.kind = "ok") =>
        LET tagged == Tagged(httpResult.versions) IN
        /\ checkResult[2] # "nil" <=> tagged = {}
        /\ tagged # {} => checkResult[1] = httpResult.versions[First(tagged)].Name

\* C9, amended: on a decoded response the function looks only at the first
\* descriptor tagged "latest": it returns that descriptor's Name when the Name is
\* not empty, and an error exactly when no descriptor carries the tag or the
\* first tagged one has an empty Name; a failed round trip is an error too.
VersionSelection ==
    Returned =>
        LET tagged == Tagged(httpResult.versions)
            found == httpResult.kind = "ok" /\ tagged # {}
                     /\ httpResult.versions[First(tagged)].Name # ""
        IN
        /\ checkResult[2] = "nil" <=> found
        /\ found => checkResult[1] = httpResult.versions[First(tagged)].Name
        /\ ~found => checkResult[1] = ""
        /\ (httpResult.kind = "ok" /\ ~found) => checkResult[2] = "nolatest"

\* C9 witness: two tagged descriptors with different names, and the Name of the
\* first one was returned.
VersionSelectionWitness ==
    /\ Returned
    /\ httpResult.kind = "ok"
    /\ Cardinality(Tagged(httpResult.versions)) >= 2
    /\ \E i, j \in Tagged(httpResult.versions) :
          /\ i < j
          /\ httpResult.versions[i].Name # httpResult.versions[j].Name
          /\ httpResult.versions[j].Name # ""
          /\ checkResult = <<httpResult.versions[i].Name, "nil">>

----------------------------------------------------------------------------
(* Shutdown *)

\* C11: a shutdown is graceful.  The ShutDown call itself takes nothing out of
\* the queue and leaves every worker where it is, so an invocation in flight
\* is not cancelled; the worker loop ends only on a Get that finds the queue
\* empty after the request, and stays ended; every key that is pending after
\* the request while the loop still runs is delivered and its handler run; and
\* once the request is made the worker loop eventually exits.
GracefulShutdown ==
    /\ [][(~shuttingDown /\ shuttingDown') =>
             UNCHANGED <<queue, dirty, processing, waiting, failures, workerVars>>]_vars
    /\ [][\A w \in Workers :
             /\ (pc[w] # "stopped" /\ pc'[w] = "stopped") =>
                    (shuttingDown /\ queue = <<>> /\ pc[w] = "get")
             /\ pc[w] = "stopped" => pc'[w] = "stopped"]_vars
    /\ \A k \in Keys :
          (shuttingDown /\ k \in Range(queue) /\ pc[TheWorker] # "stopped") ~>
              (wkey[TheWorker] = k /\ pc[TheWorker] = "handleErr")
    /\ shuttingDown ~> (pc[TheWorker] = "stopped")

\* C11 witness: shutdown was requested while the worker was inside an
\* invocation and another key was pending behind it.
GracefulShutdownWitness ==
    /\ shuttingDown
    /\ pc[TheWorker] = "sync"
    /\ queue # <<>>

----------------------------------------------------------------------------
(* Keys of other settings *)

\* C12: for a key that does not name the upgrade-checker setting, syncSetting
\* returns nil at once: no store read, no store write, no network call, the
\* store and lastUpgradeCheckedTimestamp as they were; and handleErr then
\* forgets the key instead of scheduling a retry.
IgnoredKey ==
    [][\A w \in Workers :
          /\ (/\ pc[w] = "sync"
              /\ pc'[w] = "handleErr"
              /\ wkey[w][2] # "upgrade-checker") =>
                 /\ werr'[w] = "nil"
                 /\ observed'[w] = "unread"
                 /\ updates'[w] = <<>>
                 /\ netCalls'[w] = 0
                 /\ UNCHANGED <<storeVars, lastUpgradeCheckedTimestamp, lastNetAt>>
          /\ (/\ pc[w] = "handleErr"
              /\ pc'[w] = "done"
              /\ wkey[w][2] # "upgrade-checker") =>
                 /\ failures'[wkey[w]] = 0
                 /\ waiting' = waiting
                 /\ queue' = queue
                 /\ reported'[w] = reported[w]]_vars

\* C12 witness: a worker has returned from syncSetting on the key of the
\* latest-longhorn-version setting, which had been notified twice.
IgnoredKeyWitness ==
    \E w \in Workers :
        /\ pc[w] = "handleErr"
        /\ wkey[w][2] = "latest-longhorn-version"
        /\ werr[w] = "nil"
        /\ failures[wkey[w]] = 2

----------------------------------------------------------------------------
(* Failures inside the enabled path *)

\* C13: after an invocation whose remote check succeeded but whose
\* UpdateSetting failed, the retried invocation (feature still enabled, both
\* settings loaded, less than an interval later) attempts the write again.
PersistRetriedClaim ==
    [][\A w \in Workers :
          (/\ SyncStep(w)
           /\ lastCheck = "unsaved"
           /\ now < lastNetAt + upgradeCheckInterval
           /\ observed'[w] = "true"
           /\ Loaded(w)) =>
              updates'[w] # <<>>]_vars

\* C14: an invocation whose remote check fails returns that error, writes
\* nothing and leaves lastUpgradeCheckedTimestamp and the cached version as
\* they were; and as long as the most recent remote check is a failed one, an
\* invocation that reads the feature as enabled goes to the remote service
\* again instead of being debounced.
CheckFailureRetried ==
    [][\A w \in Workers :
          /\ (/\ SyncStep(w)
              /\ netCalls'[w] = 1
              /\ fetched'[w] = "") =>
                 /\ werr'[w] \in {"post", "decode", "nolatest"}
                 /\ updates'[w] = <<>>
                 /\ UNCHANGED <<lastUpgradeCheckedTimestamp, latestLonghornVersion>>
          /\ (/\ SyncStep(w)
              /\ lastCheck = "failed"
              /\ observed'[w] = "true"
              /\ Loaded(w)) =>
                 netCalls'[w] = 1]_vars

\* C14 witness: a second remote check in a row has failed, made at the very
\* time of the first, after an earlier successful check had set the timestamp.
CheckFailureRetriedWitness ==
    /\ pc[TheWorker] = "handleErr"
    /\ wkey[TheWorker] = CheckerKey
    /\ netCalls[TheWorker] = 1
    /\ werr[TheWorker] \in {"post", "decode", "nolatest"}
    /\ recent[TheWorker]
    /\ lastCheck = "failed"
    /\ lastUpgradeCheckedTimestamp # ZeroTime
    /\ lastUpgradeCheckedTimestamp < now

----------------------------------------------------------------------------
(* The failure counter and the worker protocol *)

\* C15: a change notification leaves the failure counter of its key alone,
\* and outside handleErr the counter of a key equals the number of failed
\* syncSetting invocations of the key since it was last forgotten.
FailureCounterClaim ==
    /\ [](\A k \in Keys :
             (\A w \in Workers : ~(pc[w] = "handleErr" /\ wkey[w] = k)) =>
                 failures[k] = syncFails[k])
    /\ [][\A k \in Keys :
             notifs'[k] = notifs[k] + 1 => failures'[k] = failures[k]]_vars

\* C16: the worker protocol.  A worker moves get -> sync -> handleErr -> done
\* -> get and holds one key all the way, so a delivered key gets one
\* syncSetting and one Done; the key stays checked out until that Done, so
\* whatever handleErr does comes before it.  handleErr forgets the key on
\* success; on an error below the limit it calls AddRateLimited and does not
\* forget; on an error at the limit it reports the error once and forgets,
\* scheduling nothing.
WorkerProtocol ==
    /\ [](\A w \in Workers : InFlight(w) => wkey[w] \in processing)
    /\ [][\A w \in Workers :
             /\ pc'[w] # pc[w] =>
                    <<pc[w], pc'[w]>> \in {<<"get", "sync">>, <<"sync", "handleErr">>,
                                           <<"handleErr", "done">>, <<"done", "get">>}
             /\ (InFlight(w) /\ pc'[w] # "get") => wkey'[w] = wkey[w]
             /\ (pc[w] = "handleErr" /\ pc'[w] = "done") =>
                    LET k == wkey[w] IN
                    IF werr[w] = "nil"
                    THEN /\ failures'[k] = 0
                         /\ waiting' = waiting
                         /\ reported'[w] = 0
                    ELSE IF failures[k] < maxRetries
                    THEN /\ failures'[k] = failures[k] + 1
                         /\ k \in waiting'
                         /\ reported'[w] = 0
                    ELSE /\ failures'[k] = 0
                         /\ waiting' = waiting
                         /\ reported'[w] = 1
             /\ (pc[w] = "done" /\ pc'[w] = "get") =>
                    /\ wkey[w] \notin processing'
                    /\ reported'[w] = 0]_vars

\* C16 witness: a worker's handleErr has just dropped a key at the limit:
\* the error is reported, the counter is back at 0, and Done is still to come.
WorkerProtocolWitness ==
    \E w \in Workers :
        /\ pc[w] = "done"
        /\ reported[w] = 1
        /\ failures[wkey[w]] = 0
        /\ wkey[w] \in processing
        /\ wkey[w] \notin waiting

----------------------------------------------------------------------------
(* Side effects and spacing of the remote checks *)

\* C17: one syncSetting invocation makes at most one http.Post and at most one
\* UpdateSetting; it makes the http.Post only when it read the feature as
\* enabled and the interval since lastUpgradeCheckedTimestamp has elapsed; and
\* in the enabled path it calls UpdateSetting only after its own remote check
\* succeeded, with the version that check returned.
SideEffectBound ==
    [][\A w \in Workers :
          SyncStep(w) =>
              /\ netCalls'[w] <= 1
              /\ Len(updates'[w]) <= 1
              /\ netCalls'[w] = 1 =>
                     /\ observed'[w] = "true"
                     /\ now >= lastUpgradeCheckedTimestamp + upgradeCheckInterval
              /\ (observed'[w] = "true" /\ updates'[w] # <<>>) =>
                     /\ netCalls'[w] = 1
                     /\ fetched'[w] # ""
                     /\ updates'[w] = <<fetched'[w]>>]_vars

\* C17 witness: an enabled invocation made its one remote check and its one
\* write, replacing a cached version set by an earlier check.
SideEffectBoundWitness ==
    /\ pc[TheWorker] = "handleErr"
    /\ wkey[TheWorker] = CheckerKey
    /\ observed[TheWorker] = "true"
    /\ netCalls[TheWorker] = 1
    /\ Len(updates[TheWorker]) = 1
    /\ werr[TheWorker] = "nil"
    /\ oldTimestamp[TheWorker] # ZeroTime
    /\ latestLonghornVersion = fetched[TheWorker]

\* C18: no remote check is made less than an interval after the previous one.
MinimumSpacingClaim == \A w \in Workers : ~recent[w]

\* C18, amended: a remote check is made less than an interval after the
\* previous one only if that previous check failed, or if since the last
\* successful check an invocation that read the feature as disabled has
\* reset lastUpgradeCheckedTimestamp.
MinimumSpacing ==
    [][\A w \in Workers :
          (SyncStep(w) /\ recent'[w]) => (lastCheck = "failed" \/ disabledSynced)]_vars

\* C18 witness: a remote check made a full interval or more after the
\* successful check that set the timestamp, with no reset in between.
MinimumSpacingWitness ==
    /\ pc[TheWorker] = "handleErr"
    /\ wkey[TheWorker] = CheckerKey
    /\ netCalls[TheWorker] = 1
    /\ ~recent[TheWorker]
    /\ ~armed[TheWorker]
    /\ oldTimestamp[TheWorker] # ZeroTime
    /\ now >= oldTimestamp[TheWorker] + upgradeCheckInterval

----------------------------------------------------------------------------
(* Progress and order of delivery *)

\* C19: a failing key does not stall the engine.  Whatever err syncSetting
\* returned, the worker goes on to the deferred Done and back to Get, and its
\* loop ends only after a shutdown request; and while the loop runs, a key
\* that is pending when another key has failed invocations behind it is
\* eventually delivered and its handler run.
PoisonKeyNoStall ==
    /\ [][\A w \in Workers :
             /\ pc[w] = "handleErr" => pc'[w] \in {"handleErr", "done"}
             /\ pc[w] = "done" => pc'[w] \in {"done", "get"}
             /\ (pc[w] # "stopped" /\ pc'[w] = "stopped") => shuttingDown]_vars
    /\ \A k \in Keys :
          (/\ k \in Range(queue)
           /\ pc[TheWorker] # "stopped"
           /\ \E j \in Keys \ {k} : syncFails[j] > 0) ~>
              (wkey[TheWorker] = k /\ pc[TheWorker] = "handleErr")

\* C19 witness: before any shutdown the worker is handling another key while
\* the upgrade-checker key, whose handler has failed twice in a row, waits for
\* its next retry.
PoisonKeyNoStallWitness ==
    /\ ~shuttingDown
    /\ pc[TheWorker] = "sync"
    /\ wkey[TheWorker] # CheckerKey
    /\ syncFails[CheckerKey] >= 2
    /\ CheckerKey \in waiting

\* C20: delivery is first in, first out.  A Get hands the worker the head of
\* pending and removes just that; every other step leaves pending alone or
\* appends one key at its end; and the Done of a key marked dirty appends that
\* key at the end, behind every key pending at that moment.
DeliveryOrder ==
    [][/\ \A w \in Workers :
             (pc[w] = "get" /\ pc'[w] = "sync") =>
                 /\ wkey'[w] = Head(queue)
                 /\ queue' = Tail(queue)
       /\ (\A w \in Workers : ~(pc[w] = "get" /\ pc'[w] = "sync")) =>
             \/ queue' = queue
             \/ \E k \in Keys : queue' = Append(queue, k)
       /\ \A w \in Workers :
             (pc[w] = "done" /\ pc'[w] = "get" /\ wkey[w] \in dirty) =>
                 queue' = Append(queue, wkey[w])]_vars

\* C20 witness: a key found dirty by Done stands in pending behind the other
\* key, which was pending before that Done.
DeliveryOrderWitness ==
    \E k \in Keys :
        /\ requeued[k]
        /\ Len(queue) = 2
        /\ queue[2] = k
        /\ queue[1] # k

====
